---- MODULE Spec2Model ----
(***************************************************************************)
(* chat_pulse: the OAuth2 login / callback / logout handlers of auth.js    *)
(* running under the express-session middleware configured in server.js.   *)
(*                                                                         *)
(* JavaScript strings are sequences of one-character strings.  An optional *)
(* value (undefined / null, or a value) is a sequence of length 0 or 1.    *)
(***************************************************************************)
EXTENDS Integers, Sequences, FiniteSets, TLC

\* ---------------------------------------------------------------- bounds
NumSessions == 2
NumSlots == 2
MaxRequests == 3
MaxDigits == 1

Sessions == 1..NumSessions
Slots == 1..NumSlots

\* ------------------------------------------------------- optional values
None == <<>>
Some(v) == <<v>>

\* JavaScript truthiness of an optional string: undefined, null and "" are falsy
Truthy(opt) == opt /= None /\ opt[1] /= <<>>

\* ---------------------------------------------------------- value domains
Digits == {"a"}

RECURSIVE SeqsUpTo(_)
SeqsUpTo(n) ==
    IF n = 0 THEN {<<>>}
    ELSE LET S == SeqsUpTo(n - 1)
         IN  S \cup {Append(s, d) : s \in {t \in S : Len(t) = n - 1}, d \in Digits}

\* Math.random(): the base-36 fraction digits of the number drawn (none for 0)
RandomDraws == SeqsUpTo(MaxDigits)

\* Number.prototype.toString(36) of a number in [0, 1)
ToString36(frac) == IF frac = <<>> THEN <<"0">> ELSE <<"0", ".">> \o frac

\* String.prototype.substring(2)
Substring2(s) == SubSeq(s, 3, Len(s))

\* auth.js line 16
GenerateState(draw) == Substring2(ToString36(draw))

\* values a browser may present in the query string: nothing, any value a
\* login can generate, and any such value with one more character
QueryStates ==
    {None} \cup {Some(GenerateState(d)) : d \in RandomDraws}
           \cup {Some(Append(GenerateState(d), "a")) : d \in RandomDraws}
QueryCodes == {None, Some(<<>>), Some(<<"c">>)}

\* values the provider may answer with
Tokens == {<<"t1">>, <<"t2">>}
Identities ==
    { [id |-> i, username |-> "name", avatar |-> "av", discriminator |-> "0", email |-> "mail"]
        : i \in {"u1", "u2"} }
Outcomes == {"ok", "notok", "throw"}

\* ------------------------------------------------------------ the session
EmptySession == [oauthState |-> None, accessToken |-> None, user |-> None]

NoResp == [status |-> 0, body |-> "", state |-> None]
Resp(status, body) == [status |-> status, body |-> body, state |-> None]
Redirect(location) == Resp(302, location)

\* the redirect to the provider's authorization endpoint (auth.js 30-35)
AuthorizeRedirect(state) == [status |-> 302, body |-> "authorize", state |-> Some(state)]

\* the 400 responses of handleCallback
BadRequest(reason) == Resp(400, reason)

\* what becomes of a request whose handler throws outside any try block: the
\* framework's error response, or no response at all when the rejection of an
\* async handler is not picked up (server.js 100-108 awaits without a catch)
Unhandled == {Resp(500, "Internal Server Error"), NoResp}

\* a request: whether the middleware gave it a session, its session copy
\* (req.session), the record it was loaded from, its query parameters, the
\* handler's local variables (err is the argument of the save / destroy
\* callback), the remote calls it has issued and its response
IdleReq ==
    [kind |-> "none", sid |-> 1, pc |-> "idle", hasSession |-> TRUE,
     session |-> EmptySession, loaded |-> EmptySession, err |-> "",
     code |-> None, state |-> None,
     tokenResponse |-> "", tokenData |-> None,
     userResponse |-> "", userData |-> None,
     calls |-> <<>>, resp |-> NoResp]

\* a response of a dashboard route: a redirect, or a JSON body
NoApiResp ==
    [status |-> 0, location |-> "", success |-> FALSE, error |-> "", details |-> "",
     debug |-> "", hasGuilds |-> FALSE, guilds |-> <<>>, payload |-> <<>>]

\* the dashboard request: its route, its session copy, its parameters, the
\* locals of the /guilds handler, the remote calls it has issued, the outcome
\* of each installation probe and its response
IdleApi ==
    [pc |-> "idle", route |-> "", session |-> EmptySession,
     guildId |-> None, channelId |-> None, message |-> None, limit |-> None,
     userGuilds |-> <<>>, guildsWithPermission |-> <<>>, validGuilds |-> <<>>,
     probes |-> <<>>, calls |-> <<>>, resp |-> NoApiResp]

VARIABLES
    store,      \* session store: the persisted record of each browser session
    req,        \* the requests in flight or answered, one per slot
    started,    \* number of requests received so far
    issued,     \* per session, the oauthState values logins have committed, in order
    granted,    \* per session, the tokens a callback of that session wrote
    created,    \* number of browser sessions created so far
    passed,     \* per session, the number of callbacks that passed validation
    api         \* the dashboard request being served (see the dashboard section)

vars == <<store, req, started, issued, granted, created, passed, api>>

Init ==
    /\ store = [s \in Sessions |-> EmptySession]
    /\ req = [r \in Slots |-> IdleReq]
    /\ started = 0
    /\ issued = [s \in Sessions |-> <<>>]
    /\ granted = [s \in Sessions |-> {}]
    /\ created = 0
    /\ passed = [s \in Sessions |-> 0]
    /\ api = IdleApi

\* a slot can take a new request when it is idle or its request was answered
Free(r) == req[r].pc \in {"idle", "done"}

\* variant: every request is served from the first session's record
Arrive_shared(sessions, s, kind, code, state) ==
    [IdleReq EXCEPT !.kind = kind, !.sid = s, !.session = sessions[1],
                    !.loaded = sessions[1], !.code = code, !.state = state]

\* the middleware loads the stored record of the browser's session into
\* req.session (server.js 73-85)
Arrive(sessions, s, kind, code, state) ==
    [IdleReq EXCEPT !.kind = kind, !.sid = s, !.session = sessions[s],
                    !.loaded = sessions[s], !.code = code, !.state = state]

\* the response is sent; the middleware writes req.session back at the end of
\* the request (resave: true, server.js 76)
Answer(q, resp) == [q EXCEPT !.pc = "done", !.resp = resp]

\* an answered request is kept until the next step of any request
Pending == [r \in Slots |-> IF req[r].pc = "done" THEN IdleReq ELSE req[r]]

\* one step of the handler of slot r, leading to request record q
Step(r, q) ==
    /\ req' = [Pending EXCEPT ![r] = q]
    /\ store' = IF q.pc = "done"
                THEN [store EXCEPT ![q.sid] = q.session]
                ELSE store

\* a request arrives from browser session s and is served in the first free
\* slot r; a browser without a session gets the next new one
\* (saveUninitialized: true, server.js 77)
Receive(r, s) ==
    /\ Free(r)
    /\ \A r2 \in Slots : r2 < r => ~Free(r2)
    /\ s <= created + 1
    /\ created' = IF s > created THEN s ELSE created
    /\ started < MaxRequests
    /\ started' = started + 1

\* ---------------------------------------------------------------- login
\* variant: the check for an existing accessToken is missing
LoginBegin_noShortCircuit(q, draw) ==
    [q EXCEPT !.pc = "saving", !.session.oauthState = Some(GenerateState(draw))]

\* handleLogin up to the call of req.session.save (auth.js 9-20)
LoginBegin(q, draw) ==
    IF Truthy(q.session.accessToken)
    THEN Answer(q, Redirect("/dashboard.html"))
    ELSE [q EXCEPT !.pc = "saving", !.session.oauthState = Some(GenerateState(draw))]

LoginStart(r, s, draw) ==
    /\ Receive(r, s)
    /\ Step(r, LoginBegin(Arrive(store, s, "login", None, None), draw))
    /\ UNCHANGED <<issued, granted, passed, api>>

\* variant: the err argument of the save callback is ignored
OnSaved_ignoreErr(q, ok) ==
    Answer([q EXCEPT !.err = IF ok THEN "ok" ELSE "err"],
           AuthorizeRedirect(q.session.oauthState[1]))

\* the body of the callback of req.session.save (auth.js 20-36)
OnSaved(q, ok) ==
    IF ok
    THEN Answer([q EXCEPT !.err = "ok"], AuthorizeRedirect(q.session.oauthState[1]))
    ELSE Answer([q EXCEPT !.err = "err"], Resp(500, "Failed to initialize login"))

\* req.session.save completes; a failed save leaves the stored record as it was
LoginSaved(r, ok) ==
    /\ req[r].kind = "login"
    /\ req[r].pc = "saving"
    /\ IF ok
       THEN /\ Step(r, OnSaved(req[r], ok))
            /\ issued' = [issued EXCEPT ![req[r].sid] = Append(@, req[r].session.oauthState[1])]
       ELSE /\ req' = [Pending EXCEPT ![r] = OnSaved(req[r], ok)]
            /\ UNCHANGED <<store, issued>>
    /\ UNCHANGED <<started, granted, created, passed, api>>

\* -------------------------------------------------------------- callback
\* variant: the state is compared with state.startsWith instead of !==
Validate_prefix(session, code, state) ==
    IF ~Truthy(state) THEN "no state received"
    ELSE IF ~Truthy(session.oauthState) THEN "session expired"
    ELSE IF ~(/\ Len(session.oauthState[1]) <= Len(state[1])
              /\ SubSeq(state[1], 1, Len(session.oauthState[1])) = session.oauthState[1])
         THEN "invalid state"
    ELSE IF ~Truthy(code) THEN "missing code"
    ELSE ""

\* variant: the code is checked before the state is compared
Validate_codeFirst(session, code, state) ==
    IF ~Truthy(state) THEN "no state received"
    ELSE IF ~Truthy(session.oauthState) THEN "session expired"
    ELSE IF ~Truthy(code) THEN "missing code"
    ELSE IF state[1] /= session.oauthState[1] THEN "invalid state"
    ELSE ""

\* handleCallback lines 56-86: the first check that fails, "" when all pass
Validate(session, code, state) ==
    IF ~Truthy(state) THEN "no state received"
    ELSE IF ~Truthy(session.oauthState) THEN "session expired"
    ELSE IF state[1] /= session.oauthState[1] THEN "invalid state"
    ELSE IF ~Truthy(code) THEN "missing code"
    ELSE ""

TokenCall(code) == [kind |-> "token", arg |-> code]
UserCall(token) == [kind |-> "user", arg |-> token]

\* variant: the identity fetch is started together with the token exchange,
\* with whatever token the session holds
CallbackBegin_speculative(q) ==
    LET v == Validate(q.session, q.code, q.state)
    IN  IF v /= ""
        THEN Answer(q, BadRequest(v))
        ELSE [q EXCEPT !.pc = "awaitToken",
                       !.calls = <<TokenCall(q.code[1]),
                                   UserCall(IF q.session.accessToken = None THEN <<>>
                                            ELSE q.session.accessToken[1])>>]

\* handleCallback up to the first await (lines 49-105)
CallbackBegin(q) ==
    LET v == Validate(q.session, q.code, q.state)
    IN  IF v /= ""
        THEN Answer(q, BadRequest(v))
        ELSE [q EXCEPT !.pc = "awaitToken", !.calls = <<TokenCall(q.code[1])>>]

\* variant: the check of tokenResponse.ok is missing
OnTokenResponse_noOkCheck(q, outcome, token) ==
    LET q1 == [q EXCEPT !.tokenResponse = outcome]
    IN  CASE outcome = "throw" -> Answer(q1, BadRequest("callback error"))
          [] outcome \in {"ok", "notok"} ->
                [q1 EXCEPT !.tokenData = Some(token),
                           !.session.accessToken = Some(token),
                           !.calls = Append(@, UserCall(token)),
                           !.pc = "awaitUser"]

\* the token endpoint has answered (lines 107-125)
OnTokenResponse(q, outcome, token) ==
    LET q1 == [q EXCEPT !.tokenResponse = outcome]
    IN  CASE outcome = "notok" -> Answer(q1, BadRequest("token error"))
          [] outcome = "throw" -> Answer(q1, BadRequest("callback error"))
          [] outcome = "ok" ->
                [q1 EXCEPT !.tokenData = Some(token),
                           !.session.accessToken = Some(token),
                           !.calls = Append(@, UserCall(token)),
                           !.pc = "awaitUser"]

\* variant: the whole identity is kept
ProjectUser_whole(userData) == userData

\* lines 136-141: the identity projection kept in the session
ProjectUser(userData) ==
    [id |-> userData.id, username |-> userData.username,
     avatar |-> userData.avatar, discriminator |-> userData.discriminator]

\* the identity endpoint has answered (lines 127-151)
OnUserResponse(q, outcome, userData) ==
    LET q1 == [q EXCEPT !.userResponse = outcome]
    IN  CASE outcome = "notok" -> Answer(q1, BadRequest("user fetch error"))
          [] outcome = "throw" -> Answer(q1, BadRequest("callback error"))
          [] outcome = "ok" ->
                Answer([q1 EXCEPT !.userData = Some(userData),
                                  !.session.user = Some(ProjectUser(userData)),
                                  !.session.oauthState = None],
                       Redirect("/dashboard.html"))

\* a callback that the middleware passed on without a session: whatever the
\* query, line 52 reads req.session.oauthState before the try block and
\* before the check of line 64
CallbackNoSession(r, s, resp) ==
    /\ Receive(r, s)
    /\ req' = [Pending EXCEPT ![r] =
                Answer([IdleReq EXCEPT !.kind = "callback", !.sid = s, !.hasSession = FALSE],
                       resp)]
    /\ UNCHANGED <<store, issued, granted, passed, api>>

CallbackStart(r, s, code, state) ==
    /\ Receive(r, s)
    /\ Step(r, CallbackBegin(Arrive(store, s, "callback", code, state)))
    /\ passed' = [passed EXCEPT ![s] = IF req'[r].calls /= <<>> THEN @ + 1 ELSE @]
    /\ UNCHANGED <<issued, granted, api>>

TokenResponse(r, outcome, token) ==
    /\ req[r].kind = "callback"
    /\ req[r].pc = "awaitToken"
    /\ Step(r, OnTokenResponse(req[r], outcome, token))
    /\ granted' = [granted EXCEPT ![req[r].sid] =
                        IF req'[r].session.accessToken /= req[r].session.accessToken
                        THEN @ \cup {req'[r].session.accessToken[1]} ELSE @]
    /\ UNCHANGED <<started, issued, created, passed, api>>

UserResponse(r, outcome, userData) ==
    /\ req[r].kind = "callback"
    /\ req[r].pc = "awaitUser"
    /\ Step(r, OnUserResponse(req[r], outcome, userData))
    /\ UNCHANGED <<started, issued, granted, created, passed, api>>

\* ---------------------------------------------------------------- logout
\* handleLogout up to the call of req.session.destroy, which detaches
\* req.session from the request (auth.js 157-158)
LogoutStart(r, s) ==
    /\ Receive(r, s)
    /\ req' = [Pending EXCEPT ![r] =
                [Arrive(store, s, "logout", None, None) EXCEPT !.pc = "destroying"]]
    /\ UNCHANGED <<store, issued, granted, passed, api>>

\* variant: an error of destroy is answered with a 500
OnDestroyed_surfaceErr(q, ok) ==
    IF ok
    THEN Answer([q EXCEPT !.err = "ok"], Redirect("/"))
    ELSE Answer([q EXCEPT !.err = "err"], Resp(500, "Failed to log out"))

\* the body of the callback of req.session.destroy (auth.js 158-164)
OnDestroyed(q, ok) ==
    Answer([q EXCEPT !.err = IF ok THEN "ok" ELSE "err"], Redirect("/"))

\* req.session.destroy completes; a failed destroy leaves the stored record
LogoutDestroyed(r, ok) ==
    /\ req[r].kind = "logout"
    /\ req[r].pc = "destroying"
    /\ req' = [Pending EXCEPT ![r] = OnDestroyed(req[r], ok)]
    /\ store' = IF ok THEN [store EXCEPT ![req[r].sid] = EmptySession] ELSE store
    /\ UNCHANGED <<started, issued, granted, created, passed, api>>

Next ==
    \/ \E r \in Slots, s \in Sessions, d \in RandomDraws : LoginStart(r, s, d)
    \/ \E r \in Slots, ok \in BOOLEAN : LoginSaved(r, ok)
    \/ \E r \in Slots, s \in Sessions, c \in QueryCodes, st \in QueryStates :
            CallbackStart(r, s, c, st)
    \/ \E r \in Slots, s \in Sessions, x \in Unhandled : CallbackNoSession(r, s, x)
    \/ \E r \in Slots, o \in Outcomes, t \in Tokens : TokenResponse(r, o, t)
    \/ \E r \in Slots, o \in Outcomes, u \in Identities : UserResponse(r, o, u)
    \/ \E r \in Slots, s \in Sessions : LogoutStart(r, s)
    \/ \E r \in Slots, ok \in BOOLEAN : LogoutDestroyed(r, ok)

Spec == Init /\ [][Next]_vars

\* ============================================================ dashboard
\* The protected routes of server.js: one request, followed to its response,
\* of a session whose record is any of the records the login flow can leave.
\* The routes do not write the session, so a later request of the session
\* starts from the same record.
MaxGuilds == 3

authVars == <<store, req, started, issued, granted, created, passed>>

\* server.js 66
BOT_TOKEN == <<"bot">>

\* the records the login flow leaves in the store: a new session, a state
\* issued, a token without a user (identity fetch failed), an identity committed
ApiSessions ==
    { EmptySession,
      [EmptySession EXCEPT !.oauthState = Some(<<"a">>)],
      [EmptySession EXCEPT !.oauthState = Some(<<"a">>), !.accessToken = Some(<<"t1">>)],
      [EmptySession EXCEPT !.accessToken = Some(<<"t1">>),
                           !.user = Some([id |-> "u1", username |-> "name",
                                          avatar |-> "av", discriminator |-> "0"])] }

ApiInit ==
    /\ store \in {[s \in Sessions |-> IF s = 1 THEN x ELSE EmptySession] : x \in ApiSessions}
    /\ req = [r \in Slots |-> IdleReq]
    /\ started = 0
    /\ issued = [s \in Sessions |-> <<>>]
    /\ granted = [s \in Sessions |-> {}]
    /\ created = 1
    /\ passed = [s \in Sessions |-> 0]
    /\ api = IdleApi

Routes == {"me", "guilds", "channels", "messages", "send-message"}

\* ---------------------------------------------------- arbitrary precision
DigitChars == <<"0", "1", "2", "3", "4", "5", "6", "7", "8", "9">>
IsDigit(ch) == \E i \in 1..10 : DigitChars[i] = ch
DigitVal(ch) == (CHOOSE i \in 1..10 : DigitChars[i] = ch) - 1

\* a decimal numeral divided by two: the quotient's digits, given the carry in
RECURSIVE HalfDigits(_, _)
HalfDigits(ds, carry) ==
    IF ds = <<>> THEN <<>>
    ELSE LET v == carry * 10 + DigitVal(ds[1])
         IN  <<DigitChars[(v \div 2) + 1]>> \o HalfDigits(Tail(ds), v % 2)

IsZero(ds) == \A i \in 1..Len(ds) : ds[i] = "0"

\* BigInt(string) of a decimal numeral: its binary digits, least significant first
RECURSIVE BigInt(_)
BigInt(ds) ==
    IF IsZero(ds) THEN <<>>
    ELSE <<DigitVal(ds[Len(ds)]) % 2>> \o BigInt(HalfDigits(ds, 0))

\* a & b on BigInt values
BigAnd(a, b) ==
    [i \in 1..(IF Len(a) < Len(b) THEN Len(a) ELSE Len(b)) |-> a[i] * b[i]]

\* a BigInt compared with 0n
BigIsZero(a) == \A i \in 1..Len(a) : a[i] = 0

\* server.js 141
MANAGE_GUILD_PERMISSION == <<"3", "2">>

\* variant: the permission value must equal 0x20
HasManageGuild_equal(guild) ==
    LET permissions == BigInt(IF Truthy(guild.permissions) THEN guild.permissions[1] ELSE <<"0">>)
        mask == BigInt(MANAGE_GUILD_PERMISSION)
    IN  /\ Len(permissions) = Len(mask)
        /\ \A i \in 1..Len(mask) : permissions[i] = mask[i]

\* variant: the permissions are parsed as a Number, which keeps the 53 most
\* significant bits, and the bit is tested on its low 32 bits
HasManageGuild_number(guild) ==
    LET permissions == BigInt(IF Truthy(guild.permissions) THEN guild.permissions[1] ELSE <<"0">>)
        lost == IF Len(permissions) > 53 THEN Len(permissions) - 53 ELSE 0
        mask == BigInt(MANAGE_GUILD_PERMISSION)
    IN  /\ Len(permissions) >= Len(mask)
        /\ lost < Len(mask)
        /\ permissions[Len(mask)] = 1

\* the filter callback of server.js 142-156
HasManageGuild(guild) ==
    LET permissions == BigInt(IF Truthy(guild.permissions) THEN guild.permissions[1] ELSE <<"0">>)
    IN  ~BigIsZero(BigAnd(permissions, BigInt(MANAGE_GUILD_PERMISSION)))

\* Array.prototype.filter with that callback, keeping the order
RECURSIVE FilterByPermission(_)
FilterByPermission(guilds) ==
    IF guilds = <<>> THEN <<>>
    ELSE (IF HasManageGuild(guilds[1]) THEN <<guilds[1]>> ELSE <<>>)
            \o FilterByPermission(Tail(guilds))

\* server.js 181-186
ProjectGuild(guild) ==
    [id |-> guild.id, name |-> guild.name, icon |-> guild.icon, owner |-> guild.owner]

\* ------------------------------------------------------------ the inputs
Permissions ==
    {None, Some(<<"0">>), Some(<<"8">>), Some(<<"3", "2">>), Some(<<"4", "0">>),
     Some(<<"4", "2", "9", "4", "9", "6", "7", "3", "2", "8">>),
     Some(<<"4", "2", "9", "4", "9", "6", "7", "2", "9", "6">>),
     Some(<<"9", "2", "2", "3", "3", "7", "2", "0", "3", "6", "8", "5", "4", "7", "7", "5", "8", "4", "0">>)}

\* the guild lists the provider may return: the i-th guild has id i
GuildAt(i, perm) ==
    [id |-> i, name |-> "name", icon |-> "icon", owner |-> (i = 1), permissions |-> perm]

GuildLists ==
    UNION { { [i \in 1..n |-> GuildAt(i, f[i])] : f \in [1..n -> Permissions] } : n \in 0..MaxGuilds }

\* the channel lists the provider may return for a guild
ChannelLists ==
    { <<>>, <<[id |-> "c2", type |-> 2]>>,
      <<[id |-> "c1", type |-> 0], [id |-> "c2", type |-> 2]>> }

BodyStrings == {None, Some(<<>>), Some(<<"x">>)}
LimitParams == {None, Some(<<"5">>), Some(<<"0">>), Some(<<"x">>)}

\* ----------------------------------------------------------- the routes
BearerCall(kind, token) == [kind |-> kind, scheme |-> "Bearer", token |-> token, arg |-> <<>>]
\* variant: the bot's calls are sent with the session's scheme
BotCall_bearer(kind, arg) == [kind |-> kind, scheme |-> "Bearer", token |-> Some(BOT_TOKEN), arg |-> arg]

BotCall(kind, arg) == [kind |-> kind, scheme |-> "Bot", token |-> Some(BOT_TOKEN), arg |-> arg]

\* discord.js 76: only text channels are returned
RECURSIVE TextChannels(_)
TextChannels(channels) ==
    IF channels = <<>> THEN <<>>
    ELSE (IF channels[1].type = 0 THEN <<channels[1]>> ELSE <<>>) \o TextChannels(Tail(channels))

\* parseInt(req.query.limit) || 10 (server.js 234), for one-character values
Limit(param) ==
    IF Truthy(param) /\ IsDigit(param[1][1]) /\ DigitVal(param[1][1]) /= 0
    THEN DigitVal(param[1][1]) ELSE 10

ApiRedirect(location) == [NoApiResp EXCEPT !.status = 302, !.location = location]
ApiJson(payload) == [NoApiResp EXCEPT !.status = 200, !.success = TRUE, !.payload = payload]
ApiError(status, error) == [NoApiResp EXCEPT !.status = status, !.error = error]

\* the three explanations of an empty guild list (server.js 136, 169, 205)
DebugNoGuilds == "User is not a member of any Discord servers"
DebugNoPermission == "You don't have 'Manage Server' permission in any of your servers"
DebugBotNotInstalled ==
    "The bot is not installed in any of your servers. Please invite the bot to your server first."

GuildsJson(guilds) ==
    [NoApiResp EXCEPT !.status = 200, !.success = TRUE, !.hasGuilds = TRUE, !.guilds = guilds]
EmptyGuilds(debug) == [GuildsJson(<<>>) EXCEPT !.debug = debug]

ApiAnswer(a, resp) == [a EXCEPT !.pc = "done", !.resp = resp]

\* variant: a session is enough
requireAuth_anySession(session) == TRUE

\* server.js 88-93: TRUE when next() is called
requireAuth(session) == Truthy(session.accessToken)

\* variant: the body is rejected only when both fields are missing
RouteBegin_bothMissing(a) ==
    IF ~requireAuth(a.session) THEN ApiAnswer(a, ApiRedirect("/"))
    ELSE CASE a.route = "me" ->
                [a EXCEPT !.pc = "await", !.calls = <<BearerCall("identity", a.session.accessToken)>>]
           [] a.route = "guilds" ->
                [a EXCEPT !.pc = "await", !.calls = <<BearerCall("userGuilds", a.session.accessToken)>>]
           [] a.route = "channels" ->
                [a EXCEPT !.pc = "await", !.calls = <<BotCall("channels", <<a.guildId[1]>>)>>]
           [] a.route = "messages" ->
                [a EXCEPT !.pc = "await",
                          !.calls = <<BotCall("messages", <<a.channelId[1], Limit(a.limit)>>)>>]
           [] a.route = "send-message" ->
                IF ~Truthy(a.channelId) /\ ~Truthy(a.message)
                THEN ApiAnswer(a, ApiError(400, "channelId and message are required"))
                ELSE [a EXCEPT !.pc = "await",
                               !.calls = <<BotCall("send", <<a.channelId, a.message>>)>>]

\* a route up to its first await (server.js 115-128, 220-223, 231-235, 243-254)
RouteBegin(a) ==
    IF ~requireAuth(a.session) THEN ApiAnswer(a, ApiRedirect("/"))
    ELSE CASE a.route = "me" ->
                [a EXCEPT !.pc = "await", !.calls = <<BearerCall("identity", a.session.accessToken)>>]
           [] a.route = "guilds" ->
                [a EXCEPT !.pc = "await", !.calls = <<BearerCall("userGuilds", a.session.accessToken)>>]
           [] a.route = "channels" ->
                [a EXCEPT !.pc = "await", !.calls = <<BotCall("channels", <<a.guildId[1]>>)>>]
           [] a.route = "messages" ->
                [a EXCEPT !.pc = "await",
                          !.calls = <<BotCall("messages", <<a.channelId[1], Limit(a.limit)>>)>>]
           [] a.route = "send-message" ->
                IF ~Truthy(a.channelId) \/ ~Truthy(a.message)
                THEN ApiAnswer(a, ApiError(400, "channelId and message are required"))
                ELSE [a EXCEPT !.pc = "await",
                               !.calls = <<BotCall("send", <<a.channelId[1], a.message[1]>>)>>]

\* variant: an empty result after the probes is sent without an explanation
NextProbe_noDebug(a) ==
    IF Len(a.probes) < Len(a.guildsWithPermission)
    THEN [a EXCEPT !.pc = "probe",
                   !.calls = Append(@, BotCall("channels",
                                        <<a.guildsWithPermission[Len(a.probes) + 1].id>>))]
    ELSE ApiAnswer(a, GuildsJson(a.validGuilds))

\* the probe of the next guild is issued, or the response is sent (server.js 176-209)
NextProbe(a) ==
    IF Len(a.probes) < Len(a.guildsWithPermission)
    THEN [a EXCEPT !.pc = "probe",
                   !.calls = Append(@, BotCall("channels",
                                        <<a.guildsWithPermission[Len(a.probes) + 1].id>>))]
    ELSE IF a.validGuilds = <<>>
         THEN ApiAnswer(a, EmptyGuilds(DebugBotNotInstalled))
         ELSE ApiAnswer(a, GuildsJson(a.validGuilds))

\* variant: every guild of the user's list is probed
OnUserGuilds_probeAll(a, ok, userGuilds) ==
    IF ~ok THEN ApiAnswer(a, ApiError(500, "Failed to fetch guilds"))
    ELSE LET a1 == [a EXCEPT !.userGuilds = userGuilds, !.guildsWithPermission = userGuilds]
         IN  IF Len(userGuilds) = 0 THEN ApiAnswer(a1, EmptyGuilds(DebugNoGuilds))
             ELSE NextProbe(a1)

\* getUserGuilds has returned or thrown (server.js 128-176, 210-217)
OnUserGuilds(a, ok, userGuilds) ==
    IF ~ok THEN ApiAnswer(a, ApiError(500, "Failed to fetch guilds"))
    ELSE LET a1 == [a EXCEPT !.userGuilds = userGuilds,
                             !.guildsWithPermission = FilterByPermission(userGuilds)]
         IN  IF Len(userGuilds) = 0 THEN ApiAnswer(a1, EmptyGuilds(DebugNoGuilds))
             ELSE IF Len(a1.guildsWithPermission) = 0
                  THEN ApiAnswer(a1, EmptyGuilds(DebugNoPermission))
                  ELSE NextProbe(a1)

\* variant: a probe that throws ends the request like a failed guild fetch
OnProbe_abort(a, ok, channels) ==
    LET guild == a.guildsWithPermission[Len(a.probes) + 1]
        a1 == [a EXCEPT !.probes = Append(@, [ok |-> ok,
                                              textChannels |-> IF ok THEN Len(channels) ELSE 0]),
                        !.validGuilds = IF ok THEN Append(@, ProjectGuild(guild)) ELSE @]
    IN  IF ok THEN NextProbe(a1) ELSE ApiAnswer(a1, ApiError(500, "Failed to fetch guilds"))

\* getChannels of a probe has returned these text channels, or thrown
\* (server.js 177-196)
OnProbe(a, ok, channels) ==
    LET guild == a.guildsWithPermission[Len(a.probes) + 1]
    IN  NextProbe([a EXCEPT !.probes = Append(@, [ok |-> ok,
                                                  textChannels |-> IF ok THEN Len(channels) ELSE 0]),
                            !.validGuilds = IF ok THEN Append(@, ProjectGuild(guild)) ELSE @])

\* the remote call of one of the other routes has returned or thrown
\* (server.js 117-122, 223-228, 235-240, 254-259)
OnRemote(a, ok, payload) ==
    CASE a.route = "me" ->
            ApiAnswer(a, IF ok THEN ApiJson(payload) ELSE ApiError(500, "Failed to fetch user info"))
      [] a.route = "channels" ->
            ApiAnswer(a, IF ok THEN ApiJson(TextChannels(payload))
                         ELSE ApiError(500, "Failed to fetch channels"))
      [] a.route = "messages" ->
            ApiAnswer(a, IF ok THEN ApiJson(payload) ELSE ApiError(500, "Failed to fetch messages"))
      [] a.route = "send-message" ->
            ApiAnswer(a, IF ok THEN ApiJson(payload) ELSE ApiError(500, "Failed to send message"))

\* a dashboard request arrives in the browser's session
ApiStart(route, guildId, channelId, message, limit) ==
    /\ api.pc = "idle"
    /\ api' = RouteBegin([IdleApi EXCEPT !.pc = "start", !.route = route, !.session = store[1],
                                         !.guildId = guildId, !.channelId = channelId,
                                         !.message = message, !.limit = limit])
    /\ UNCHANGED authVars

UserGuildsResponse(ok, userGuilds) ==
    /\ api.pc = "await"
    /\ api.route = "guilds"
    /\ api' = OnUserGuilds(api, ok, userGuilds)
    /\ UNCHANGED authVars

ProbeResponse(ok, channels) ==
    /\ api.pc = "probe"
    /\ api' = OnProbe(api, ok, TextChannels(channels))
    /\ UNCHANGED authVars

RemoteResponse(ok, payload) ==
    /\ api.pc = "await"
    /\ api.route /= "guilds"
    /\ api' = OnRemote(api, ok, payload)
    /\ UNCHANGED authVars

\* the parameters a route takes
ApiInputs ==
    { [route |-> "me", guildId |-> None, channelId |-> None, message |-> None, limit |-> None],
      [route |-> "guilds", guildId |-> None, channelId |-> None, message |-> None, limit |-> None],
      [route |-> "channels", guildId |-> Some(<<"g1">>), channelId |-> None, message |-> None,
       limit |-> None] }
    \cup { [route |-> "messages", guildId |-> None, channelId |-> Some(<<"c1">>),
            message |-> None, limit |-> l] : l \in LimitParams }
    \cup { [route |-> "send-message", guildId |-> None, channelId |-> c, message |-> m,
            limit |-> None] : c \in BodyStrings, m \in BodyStrings }

\* what the provider answers to the call of a route
Payloads(route) ==
    CASE route = "me" -> {<<u>> : u \in Identities}
      [] route = "channels" -> ChannelLists
      [] route = "messages" -> {<<>>, <<"m1">>}
      [] route = "send-message" -> {<<"id1">>}
      [] OTHER -> {<<>>}

ApiNext ==
    \/ \E i \in ApiInputs : ApiStart(i.route, i.guildId, i.channelId, i.message, i.limit)
    \/ /\ api.pc = "await" /\ api.route = "guilds"
       /\ \E ok \in BOOLEAN, g \in GuildLists : UserGuildsResponse(ok, g)
    \/ \E ok \in BOOLEAN, c \in ChannelLists : ProbeResponse(ok, c)
    \/ \E ok \in BOOLEAN, p \in Payloads(api.route) : RemoteResponse(ok, p)

ApiSpec == ApiInit /\ [][ApiNext]_vars

\* ------------------------------------------------------------ properties
Range(seq) == {seq[i] : i \in 1..Len(seq)}

\* a callback that was given a session
IsCallback(r) == req[r].kind = "callback" /\ req[r].hasSession
Answered(r) == req[r].pc = "done"

\* the callback of slot r presented a state and found a stored oauthState
Matching(r) ==
    /\ Truthy(req[r].state)
    /\ Truthy(req[r].loaded.oauthState)
    /\ req[r].state[1] = req[r].loaded.oauthState[1]

Mismatching(r) ==
    /\ Truthy(req[r].state)
    /\ Truthy(req[r].loaded.oauthState)
    /\ req[r].state[1] /= req[r].loaded.oauthState[1]

\* C1: in every reachable state the stored session has accessToken and user
\* both set or both absent.
C1_TokenAndUserTogether ==
    \A s \in Sessions : (store[s].accessToken = None) <=> (store[s].user = None)

\* C2: a callback whose state is present and differs from the stored
\* oauthState is answered 400 "invalid state" and issues no remote call.
C2_MismatchRejected ==
    \A r \in Slots :
        IsCallback(r) /\ Mismatching(r) =>
            /\ Answered(r)
            /\ req[r].resp = BadRequest("invalid state")
            /\ req[r].calls = <<>>

\* a presented state that is the stored one plus one character was rejected
C2_Witness ==
    \E r \in Slots :
        /\ IsCallback(r) /\ Mismatching(r) /\ Answered(r)
        /\ req[r].state[1] = Append(req[r].loaded.oauthState[1], "a")
        /\ req[r].code = Some(<<"c">>)

\* C3: an accessToken is written only by a callback of the same session whose
\* state equals an oauthState a login of that session committed, and the
\* accessToken a session stores was written by a callback of that session.
C3_OwnStateOnly ==
    /\ \A r \in Slots :
            IsCallback(r) /\ req[r].session.accessToken /= req[r].loaded.accessToken =>
                /\ Truthy(req[r].state)
                /\ req[r].state[1] \in Range(issued[req[r].sid])
    /\ \A s \in Sessions :
            store[s].accessToken /= None => store[s].accessToken[1] \in granted[s]

\* a callback presenting the state that authenticated another session, in a
\* session that was never issued it, was answered and left unauthenticated
C3_Witness ==
    \E r \in Slots, s \in Sessions :
        /\ IsCallback(r) /\ Answered(r)
        /\ s /= req[r].sid
        /\ Truthy(req[r].state)
        /\ req[r].state[1] \in Range(issued[s])
        /\ req[r].state[1] \notin Range(issued[req[r].sid])
        /\ Truthy(store[s].accessToken)
        /\ store[req[r].sid].accessToken = None

\* C4: of the callbacks presenting one oauthState value that a login stored,
\* at most one passes state validation and issues a token exchange (stated
\* for a session in which a single login has stored a value).
C4_SingleUse ==
    \A s \in Sessions : Len(issued[s]) = 1 => passed[s] <= 1

\* C5: after a callback whose state matched the stored oauthState has
\* returned, the session's oauthState is absent, whatever the outcome.
C5_StateConsumed ==
    \A r \in Slots :
        IsCallback(r) /\ Answered(r) /\ Matching(r) =>
            req[r].session.oauthState = None

\* C6: after a callback was rejected with "invalid state" the session's
\* oauthState is cleared.
C6_ClearedOnMismatch ==
    \A r \in Slots :
        IsCallback(r) /\ Answered(r) /\ req[r].resp = BadRequest("invalid state") =>
            req[r].session.oauthState = None

\* C7: a callback that ends in a 400 response leaves accessToken and user as
\* they were before the callback.
C7_FailureFrame ==
    \A r \in Slots :
        IsCallback(r) /\ Answered(r) /\ req[r].resp.status = 400 =>
            /\ req[r].session.accessToken = req[r].loaded.accessToken
            /\ req[r].session.user = req[r].loaded.user

\* C8: the validation checks apply in the order state-absent, stored
\* oauthState absent, state mismatch, code absent; the response is the 400 of
\* the first failing check, with no remote call and accessToken and user
\* untouched.
C8_ValidationOrder ==
    \A r \in Slots :
        IsCallback(r) =>
            LET q == req[r]
                noState == ~Truthy(q.state)
                noStored == ~Truthy(q.loaded.oauthState)
                noCode == ~Truthy(q.code)
                Rejected(reason) ==
                    /\ q.pc = "done"
                    /\ q.resp = [status |-> 400, body |-> reason, state |-> None]
                    /\ q.calls = <<>>
                    /\ q.session.accessToken = q.loaded.accessToken
                    /\ q.session.user = q.loaded.user
            IN  /\ noState => Rejected("no state received")
                /\ ~noState /\ noStored => Rejected("session expired")
                /\ Mismatching(r) => Rejected("invalid state")
                /\ Matching(r) /\ noCode => Rejected("missing code")
                /\ Matching(r) /\ ~noCode => q.calls /= <<>>

\* a request failing both the state comparison and the code check got the
\* answer of the state comparison
C8_Witness ==
    \E r \in Slots :
        /\ IsCallback(r) /\ Answered(r)
        /\ Mismatching(r)
        /\ ~Truthy(req[r].code)
        /\ req[r].resp.body = "invalid state"

\* C9: when the token exchange returns a non-success response the callback
\* answers 400 "token error", issues no identity fetch and leaves the session
\* as it was.
C9_TokenError ==
    \A r \in Slots :
        IsCallback(r) /\ req[r].tokenResponse = "notok" =>
            /\ Answered(r)
            /\ req[r].resp = BadRequest("token error")
            /\ req[r].calls = <<TokenCall(req[r].code[1])>>
            /\ req[r].session.accessToken = req[r].loaded.accessToken
            /\ req[r].session.user = req[r].loaded.user
            /\ req[r].session.oauthState = req[r].loaded.oauthState

C9_Witness ==
    \E r \in Slots :
        /\ IsCallback(r) /\ Answered(r)
        /\ req[r].tokenResponse = "notok"
        /\ store[req[r].sid] = req[r].loaded

\* C10: when both remote calls succeed the session ends with the token the
\* exchange returned, the {id, username, avatar, discriminator} projection of
\* the fetched identity and no oauthState, and the response redirects to the
\* dashboard.
C10_Success ==
    \A r \in Slots :
        IsCallback(r) /\ req[r].tokenResponse = "ok" /\ req[r].userResponse = "ok" =>
            LET q == req[r]
                u == q.userData[1]
            IN  /\ q.pc = "done"
                /\ q.resp = [status |-> 302, body |-> "/dashboard.html", state |-> None]
                /\ q.session.accessToken = q.tokenData
                /\ q.tokenData /= None
                /\ q.session.user /= None
                /\ DOMAIN q.session.user[1] = {"id", "username", "avatar", "discriminator"}
                /\ \A f \in {"id", "username", "avatar", "discriminator"} :
                        q.session.user[1][f] = u[f]
                /\ q.session.oauthState = None

C10_Witness ==
    \E r \in Slots :
        /\ IsCallback(r) /\ Answered(r)
        /\ req[r].tokenResponse = "ok" /\ req[r].userResponse = "ok"
        /\ req[r].tokenData = Some(<<"t2">>)
        /\ req[r].userData /= None
        /\ req[r].userData[1].id = "u2"
        /\ store[req[r].sid] = req[r].session

\* C11: every callback that does not succeed is answered with a 400, whatever
\* goes wrong while it is handled.
C11_Always400 ==
    \A r \in Slots :
        req[r].kind = "callback" /\ Answered(r) /\ req[r].resp /= Redirect("/dashboard.html") =>
            req[r].resp.status = 400

\* C12: the identity fetch is the second call of a callback, issued after the
\* token exchange returned success, and it carries the token that exchange
\* returned.
C12_FetchAfterExchange ==
    \A r \in Slots :
        req[r].kind = "callback" =>
            /\ Len(req[r].calls) <= 2
            /\ \A i \in 1..Len(req[r].calls) :
                    req[r].calls[i].kind = "user" =>
                        /\ i = 2
                        /\ req[r].calls[1].kind = "token"
                        /\ req[r].tokenResponse = "ok"
                        /\ req[r].tokenData /= None
                        /\ req[r].calls[i].arg = req[r].tokenData[1]
            /\ req[r].pc = "awaitToken" => Len(req[r].calls) = 1

\* the identity fetch carries the new token although the session held another
C12_Witness ==
    \E r \in Slots :
        /\ IsCallback(r)
        /\ req[r].pc = "awaitUser"
        /\ req[r].loaded.accessToken /= None
        /\ req[r].loaded.accessToken /= req[r].tokenData
        /\ req[r].calls[2].arg = req[r].tokenData[1]

\* C13: a login on a session that has an accessToken redirects to the
\* dashboard, leaves every session field as it was and is not redirected to
\* the provider.
C13_LoginIdempotent ==
    \A r \in Slots :
        req[r].kind = "login" /\ Truthy(req[r].loaded.accessToken) =>
            /\ req[r].pc = "done"
            /\ req[r].resp = [status |-> 302, body |-> "/dashboard.html", state |-> None]
            /\ req[r].session = req[r].loaded
            /\ store[req[r].sid] = req[r].loaded
            /\ req[r].calls = <<>>

\* a login on a session that holds both an accessToken and an oauthState
C13_Witness ==
    \E r \in Slots :
        /\ req[r].kind = "login" /\ Answered(r)
        /\ Truthy(req[r].loaded.accessToken)
        /\ Truthy(req[r].loaded.oauthState)

\* C14: the oauthState a login stores is non-empty, and no two logins of a
\* session store the same value.
C14_NonEmptyUnique ==
    \A s \in Sessions :
        /\ \A i \in 1..Len(issued[s]) : issued[s][i] /= <<>>
        /\ \A i, j \in 1..Len(issued[s]) : i /= j => issued[s][i] /= issued[s][j]

\* C15: the redirect to the provider is sent only after the session commit has
\* succeeded and carries the committed state; a failed commit is answered
\* with a 500 and no redirect.
C15_CommitBeforeRedirect ==
    \A r \in Slots :
        req[r].kind = "login" =>
            /\ req[r].pc = "saving" => req[r].resp.status = 0
            /\ req[r].resp.body = "authorize" =>
                    /\ req[r].err = "ok"
                    /\ req[r].resp.status = 302
                    /\ req[r].resp.state = req[r].session.oauthState
                    /\ store[req[r].sid].oauthState = req[r].resp.state
            /\ req[r].err = "ok" => req[r].resp.body = "authorize"
            /\ req[r].err = "err" =>
                    /\ req[r].pc = "done"
                    /\ req[r].resp.status = 500
                    /\ req[r].resp.state = None

\* a login whose commit failed was answered while the store lacks its state
C15_Witness ==
    \E r \in Slots :
        /\ req[r].kind = "login" /\ Answered(r)
        /\ req[r].err = "err"
        /\ Truthy(req[r].session.oauthState)
        /\ store[req[r].sid].oauthState /= req[r].session.oauthState

\* C16: once a logout has responded the session holds no accessToken, user or
\* oauthState, whatever the outcome of destroy.
C16_LogoutClears ==
    \A r \in Slots :
        req[r].kind = "logout" /\ Answered(r) =>
            /\ store[req[r].sid].accessToken = None
            /\ store[req[r].sid].user = None
            /\ store[req[r].sid].oauthState = None

\* C17: a logout is answered with a redirect to the landing page, from every
\* session state and also when destroy reports an error.
C17_LogoutRedirects ==
    \A r \in Slots :
        req[r].kind = "logout" =>
            /\ req[r].pc = "destroying" => req[r].resp.status = 0
            /\ req[r].pc = "done" =>
                    req[r].resp = [status |-> 302, body |-> "/", state |-> None]
            /\ req[r].err /= "" => req[r].pc = "done"

\* a logout of an authenticated session whose destroy failed
C17_Witness ==
    \E r \in Slots :
        /\ req[r].kind = "logout" /\ Answered(r)
        /\ req[r].err = "err"
        /\ Truthy(req[r].loaded.accessToken)
        /\ req[r].loaded.user /= None
\* ------------------------------------------------- dashboard properties
ApiDone(route) == api.pc = "done" /\ api.route = route

\* C18: a request to a protected endpoint on a session with no accessToken is
\* answered with a redirect to the landing page and issues no remote call,
\* with the user's token or with the bot's.
C18_NoTokenNoCall ==
    (api.pc /= "idle" /\ ~Truthy(api.session.accessToken))
        => /\ api.pc = "done"
           /\ api.resp = ApiRedirect("/")
           /\ api.calls = <<>>

C18_Witness ==
    /\ ApiDone("send-message")
    /\ Truthy(api.channelId) /\ Truthy(api.message)
    /\ Truthy(api.session.oauthState)
    /\ ~Truthy(api.session.accessToken)
    /\ api.resp.status = 302

\* the value of a decimal numeral modulo 64
RECURSIVE Mod64(_, _)
Mod64(ds, acc) ==
    IF ds = <<>> THEN acc ELSE Mod64(Tail(ds), (acc * 10 + DigitVal(ds[1])) % 64)

\* the manage-server bit (0x20) of a guild's permissions
ManageBit(guild) ==
    /\ guild.permissions /= None
    /\ (Mod64(guild.permissions[1], 0) \div 32) % 2 = 1

\* the ids of the guilds whose channel probe succeeded
Installed ==
    { api.calls[k + 1].arg[1] : k \in {j \in 1..Len(api.probes) : api.probes[j].ok} }

\* the guilds of the user's list with the bit set and a successful probe
Accessible ==
    { i \in 1..Len(api.userGuilds) :
        ManageBit(api.userGuilds[i]) /\ api.userGuilds[i].id \in Installed }

\* C19: list-accessible-guilds returns exactly the guilds of the user's list
\* that have the manage-server bit and whose probe succeeded, each probed once
\* with the bot's token, each projected to {id, name, icon, owner}, in the
\* order of the user's list.
C19_ExactlyAccessible ==
    (ApiDone("guilds") /\ api.resp.status = 200)
        => /\ Len(api.resp.guilds) = Cardinality(Accessible)
           /\ \A i \in Accessible :
                \E k \in 1..Len(api.resp.guilds) :
                    /\ api.resp.guilds[k] = [id |-> api.userGuilds[i].id,
                                             name |-> api.userGuilds[i].name,
                                             icon |-> api.userGuilds[i].icon,
                                             owner |-> api.userGuilds[i].owner]
                    /\ k = Cardinality({j \in Accessible : j <= i})
           /\ \A i \in 1..Len(api.userGuilds) :
                Cardinality({k \in 2..Len(api.calls) :
                                /\ api.calls[k].kind = "channels"
                                /\ api.calls[k].scheme = "Bot"
                                /\ api.calls[k].arg = <<api.userGuilds[i].id>>})
                    = IF ManageBit(api.userGuilds[i]) THEN 1 ELSE 0

\* the example: A(0x20), B(0x0), C(0x28), the bot in A and C, C without text channels
C19_Witness ==
    /\ ApiDone("guilds")
    /\ Len(api.userGuilds) = 3
    /\ api.userGuilds[1].permissions = Some(<<"3", "2">>)
    /\ api.userGuilds[2].permissions = Some(<<"0">>)
    /\ api.userGuilds[3].permissions = Some(<<"4", "0">>)
    /\ api.probes = <<[ok |-> TRUE, textChannels |-> 1], [ok |-> TRUE, textChannels |-> 0]>>
    /\ Len(api.resp.guilds) = 2
    /\ api.resp.guilds[1].id = 1
    /\ api.resp.guilds[2].id = 3

\* the explanation the first emptied stage gives
ExpectedReason ==
    IF api.userGuilds = <<>> THEN DebugNoGuilds
    ELSE IF \A i \in 1..Len(api.userGuilds) : ~ManageBit(api.userGuilds[i]) THEN DebugNoPermission
    ELSE DebugBotNotInstalled

\* C20: an empty result carries the explanation of the first stage that emptied
\* the set (no guilds, else no manage-server permission, else bot not
\* installed), and a non-empty result carries none.
C20_FirstEmptiedStage ==
    (ApiDone("guilds") /\ api.resp.status = 200)
        => /\ api.resp.guilds = <<>> => api.resp.debug = ExpectedReason
           /\ api.resp.guilds /= <<>> => api.resp.debug = ""

\* guilds with the permission, every probe failed
C20_Witness ==
    /\ ApiDone("guilds")
    /\ Len(api.probes) = 2
    /\ \A k \in 1..2 : ~api.probes[k].ok
    /\ api.resp.guilds = <<>>
    /\ api.resp.debug = DebugBotNotInstalled

\* C21: a probe that fails excludes only its own guild: every guild with the
\* manage-server bit is still probed, every guild whose probe succeeded is in
\* the result, and the response is a success response however many probes fail.
C21_ProbeFailureIsolated ==
    (ApiDone("guilds") /\ Len(api.calls) >= 2)
        => /\ api.resp.status = 200
           /\ api.resp.success
           /\ Len(api.probes) = Cardinality({i \in 1..Len(api.userGuilds) :
                                                ManageBit(api.userGuilds[i])})
           /\ \A k \in 1..Len(api.probes) :
                api.probes[k].ok
                    <=> \E j \in 1..Len(api.resp.guilds) :
                            api.resp.guilds[j].id = api.calls[k + 1].arg[1]

\* three guilds probed: the first and the last probe fail, the second succeeds
C21_Witness ==
    /\ ApiDone("guilds")
    /\ Len(api.probes) = 3
    /\ ~api.probes[1].ok /\ api.probes[2].ok /\ ~api.probes[3].ok
    /\ api.resp.status = 200
    /\ Len(api.resp.guilds) = 1
    /\ api.resp.guilds[1].id = api.calls[3].arg[1]

\* the permissions of the guilds the filter kept, and of the guilds it dropped
Kept == {api.guildsWithPermission[k].permissions : k \in 1..Len(api.guildsWithPermission)}
Dropped ==
    { api.userGuilds[i].permissions :
        i \in {j \in 1..Len(api.userGuilds) :
                \A k \in 1..Len(api.guildsWithPermission) :
                    api.guildsWithPermission[k] /= api.userGuilds[j]} }

\* C22: the permission filter keeps a guild exactly when bit 0x20 of its
\* decimal permissions value is set, for values up to 64 bits: "8" and
\* 2^32 are dropped, "32", 2^32 + 32 and 2^63 + 32 are kept, and a guild
\* without a permissions value is dropped.
C22_BitTest64 ==
    (api.route = "guilds" /\ api.userGuilds /= <<>>)
        => /\ \A i \in 1..Len(api.userGuilds) :
                ManageBit(api.userGuilds[i])
                    <=> \E k \in 1..Len(api.guildsWithPermission) :
                            api.guildsWithPermission[k] = api.userGuilds[i]
           /\ Kept \subseteq
                {Some(<<"3", "2">>), Some(<<"4", "0">>),
                 Some(<<"4", "2", "9", "4", "9", "6", "7", "3", "2", "8">>),
                 Some(<<"9", "2", "2", "3", "3", "7", "2", "0", "3", "6", "8", "5", "4", "7",
                        "7", "5", "8", "4", "0">>)}
           /\ Dropped \subseteq
                {None, Some(<<"0">>), Some(<<"8">>),
                 Some(<<"4", "2", "9", "4", "9", "6", "7", "2", "9", "6">>)}

\* a list with "8", 2^32 + 32 and no permissions value: only the second is kept
C22_Witness ==
    /\ api.route = "guilds"
    /\ Len(api.userGuilds) = 3
    /\ api.userGuilds[1].permissions = Some(<<"8">>)
    /\ api.userGuilds[2].permissions = Some(<<"4", "2", "9", "4", "9", "6", "7", "3", "2", "8">>)
    /\ api.userGuilds[3].permissions = None
    /\ Len(api.guildsWithPermission) = 1
    /\ api.guildsWithPermission[1].id = 2

UserKinds == {"identity", "userGuilds"}
BotKinds == {"channels", "messages", "send"}

\* C23: the two credentials are never interchanged: identity and user-guild
\* calls carry the Bearer scheme with the session's access token, channel,
\* message and send calls carry the Bot scheme with the bot token, and no call
\* of a request is issued a second time, with the same or the other credential.
C23_CredentialsApart ==
    /\ \A k \in 1..Len(api.calls) :
        LET c == api.calls[k]
        IN  /\ c.kind \in UserKinds \cup BotKinds
            /\ c.kind \in UserKinds
                => c.scheme = "Bearer" /\ c.token = api.session.accessToken
                                       /\ c.token /= Some(BOT_TOKEN)
            /\ c.kind \in BotKinds
                => c.scheme = "Bot" /\ c.token = Some(BOT_TOKEN)
                                    /\ c.token /= api.session.accessToken
    /\ \A j, k \in 1..Len(api.calls) :
        (j < k /\ api.calls[j].kind = api.calls[k].kind) => api.calls[j].arg /= api.calls[k].arg
    /\ api.route /= "guilds" => Len(api.calls) <= 1

\* a guild request whose user call succeeded and whose first probe failed:
\* the failed probe is followed by the probe of the next guild only
C23_Witness ==
    /\ ApiDone("guilds")
    /\ Len(api.calls) = 3
    /\ api.calls[1].scheme = "Bearer"
    /\ api.calls[2].scheme = "Bot"
    /\ ~api.probes[1].ok
    /\ api.calls[3].arg /= api.calls[2].arg

\* C24: POST /send-message on an authenticated session with an empty or absent
\* channelId or message is answered 400 {success: false, error: "channelId and
\* message are required"} and issues no remote call.
C24_SendValidation ==
    (/\ api.route = "send-message"
     /\ Truthy(api.session.accessToken)
     /\ ~Truthy(api.channelId) \/ ~Truthy(api.message))
        => /\ api.pc = "done"
           /\ api.resp.status = 400
           /\ ~api.resp.success
           /\ api.resp.error = "channelId and message are required"
           /\ api.calls = <<>>

\* the scenario {channelId: "", message: "x"}
C24_Witness ==
    /\ ApiDone("send-message")
    /\ Truthy(api.session.accessToken)
    /\ api.channelId = Some(<<>>)
    /\ api.message = Some(<<"x">>)
    /\ api.resp.status = 400

\* the positions in the user's list of the guilds with the manage-server bit
Passing == {i \in 1..Len(api.userGuilds) : ManageBit(api.userGuilds[i])}

\* the guilds with the bit, in the order of the user's list
PassingGuilds == SelectSeq(api.userGuilds, ManageBit)

\* C27: a list-accessible-guilds request issues one user-guild fetch, then
\* probes the guilds with the manage-server bit, each once, one at a time, in
\* the order of the user's list, and no other guild; with an empty list or no
\* guild with the bit it issues no call with the bot's credential.
C27_SequentialProbes ==
    (api.route = "guilds" /\ api.calls /= <<>>)
        => /\ api.calls[1].kind = "userGuilds"
           /\ \A k \in 2..Len(api.calls) : api.calls[k].kind = "channels"
           /\ LET passing == PassingGuilds
              IN  /\ Len(api.calls) - 1 <= Len(passing)
                  /\ \A k \in 1..(Len(api.calls) - 1) :
                        api.calls[k + 1].arg = <<passing[k].id>>
           /\ Len(api.calls) - 1 = Len(api.probes) + (IF api.pc = "probe" THEN 1 ELSE 0)
           /\ (api.pc = "done" /\ api.resp.status = 200)
                => Len(api.calls) - 1 = Cardinality(Passing)
           /\ Passing = {} => \A k \in 1..Len(api.calls) : api.calls[k].scheme /= "Bot"

\* the first guild lacks the bit; the second was probed and failed, and the
\* probe of the third is the only call outstanding
C27_Witness ==
    /\ api.route = "guilds"
    /\ api.pc = "probe"
    /\ Len(api.userGuilds) = 3
    /\ Passing = {2, 3}
    /\ Len(api.probes) = 1
    /\ ~api.probes[1].ok
    /\ Len(api.calls) = 3
    /\ api.calls[2].arg = <<2>>
    /\ api.calls[3].arg = <<3>>

\* ------------------------------------------------ replay and re-login
\* a record in which a callback has committed its token and identity
Succeeded(rec) == Truthy(rec.accessToken) /\ rec.user /= None

\* a callback that arrives on the record rec with a state value, whatever the
\* value and the code, is answered 'session expired' before any remote call
\* and leaves the record as it is
ReplayRejected(rec) ==
    \A c \in QueryCodes, st \in {x \in QueryStates : Truthy(x)} :
        LET q == CallbackBegin([IdleReq EXCEPT !.kind = "callback", !.session = rec,
                                               !.loaded = rec, !.code = c, !.state = st])
        IN  /\ q.pc = "done"
            /\ q.resp = BadRequest("session expired")
            /\ q.calls = <<>>
            /\ q.session = rec

\* C25: once a callback has succeeded in a session, a further callback in that
\* session is rejected with 400 'session expired' without a remote call and
\* leaves accessToken and user unchanged, until a login stores a new oauthState:
\* no step other than a login's commit takes the session's record from a
\* committed success to a record on which an arriving callback is not rejected so.
C25_NoReplayAfterSuccess ==
    [][\A s \in Sessions :
        (Succeeded(store[s]) /\ issued'[s] = issued[s]) => ReplayRejected(store'[s])]_vars

\* the request a callback with this code and state becomes on the record rec,
\* up to its first await
CallbackOn(rec, code, state) ==
    CallbackBegin([IdleReq EXCEPT !.kind = "callback", !.session = rec, !.loaded = rec,
                                  !.code = code, !.state = state])

\* C26: when two logins have been made in an unauthenticated session before
\* any callback, the second has overwritten the stored oauthState: a callback
\* carrying the first login's state is rejected with 'invalid state', and only
\* a callback carrying the state stored last passes validation.
C26_SecondLoginWins ==
    \A s \in Sessions :
        (Len(issued[s]) = 2 /\ passed[s] = 0 /\ store[s].oauthState /= None)
            => /\ store[s].oauthState = Some(issued[s][2])
               /\ CallbackOn(store[s], Some(<<"c">>), Some(issued[s][1])).resp
                    = BadRequest("invalid state")
               /\ \A c \in QueryCodes, st \in QueryStates :
                    CallbackOn(store[s], c, st).calls /= <<>> => st = Some(issued[s][2])

====
